---- MODULE Spec2Model ----
(***************************************************************************)
(* Model of contracts/genXML.py: the script that reads a list of contract  *)
(* source files and bundles them into contracts.xml.                       *)
(*                                                                         *)
(* Text is modelled character by character: a string is a sequence of      *)
(* one-character strings, so that concatenation, the decimal formatting of *)
(* the index, newline translation and (the absence of) escaping are all    *)
(* computed rather than assumed.  The file system is a function from paths *)
(* to files.  One run of the script is a sequence of steps, one per        *)
(* statement that touches a file; Rerun starts the script again on the     *)
(* file system the previous run left behind.                               *)
(*                                                                         *)
(* The list of filenames is a literal of the script; the model draws it    *)
(* from the lists of at most MaxFiles names so that the statements about   *)
(* "any list" (the empty one included) can be checked.  The platform is    *)
(* POSIX: os.linesep is "\n" and os.sep is "/".                            *)
(***************************************************************************)
EXTENDS Naturals, Sequences, FiniteSets

\* ------------------------------------------------------------------ bounds

\* Longest filename list considered.
MaxFiles == 2

\* Number of times the script is run in succession.
MaxRuns == 2

\* ------------------------------------------------- the script's own literals

\* Two of the filenames (the script lists eight names of this shape).
NameA == <<"A",".","s","o","l">>

NameB == <<"B",".","s","o","l">>

Names == {NameA, NameB}

\* The first argument of os.path.join.
CurDir == <<".">>

\* open("contracts.xml", 'w')
OutputPath == <<"c","o","n","t","r","a","c","t","s",".","x","m","l">>

OpenModeAppend == "a"

OpenModeUpdate == "r+"

OpenMode == "w"

\* os.linesep, which a text-mode write substitutes for "\n": one character
\* on POSIX.
linesep == "\n"

EnumerateIndexDefault(taken) == taken

\* enumerate(contracts, start=1): the index paired with the next item, after
\* `taken` items.
EnumerateIndex(taken) == 1 + taken

DocumentsOpenNoNewline == <<"<","d","o","c","u","m","e","n","t","s",">">>

\* xml_content = "<documents>\n"
DocumentsOpen == <<"<","d","o","c","u","m","e","n","t","s",">","\n">>

DocumentsCloseNewline == <<"<","/","d","o","c","u","m","e","n","t","s",">","\n">>

\* xml_content += "</documents>"
DocumentsClose == <<"<","/","d","o","c","u","m","e","n","t","s",">">>

\* ------------------------------------------------------------ text helpers

Digits == <<"0","1","2","3","4","5","6","7","8","9">>

RECURSIVE IntToStr(_)
\* The decimal digits of a natural number, as the f-string formats {index}.
IntToStr(n) ==
    IF n < 10 THEN <<Digits[n + 1]>>
    ELSE IntToStr(n \div 10) \o <<Digits[(n % 10) + 1]>>

\* What a text-mode read (newline=None) returns for the characters stored in
\* the file: "\r\n" and a lone "\r" both become "\n".  A "\n" that follows
\* a "\r" is the second half of a pair and is dropped.
UniversalNewlines(s) ==
    LET mapped == [i \in 1..Len(s) |->
                     IF s[i] = "\r" THEN "\n"
                     ELSE IF s[i] = "\n" /\ i > 1 /\ s[i - 1] = "\r" THEN ""
                     ELSE s[i]]
    IN SelectSeq(mapped, LAMBDA c : c /= "")

\* What a text-mode write (newline=None) stores: "\n" becomes os.linesep.
WriteTranslate(s) ==
    [i \in 1..Len(s) |-> IF s[i] = "\n" THEN linesep ELSE s[i]]

\* posixpath.join(a, b) for two components.
os_path_join(a, b) ==
    IF b /= <<>> /\ Head(b) = "/" THEN b
    ELSE IF a = <<>> \/ a[Len(a)] = "/" THEN a \o b
    ELSE a \o <<"/">> \o b

EscapeChar(c) ==
    CASE c = "<" -> <<"&","l","t",";">>
      [] c = ">" -> <<"&","g","t",";">>
      [] c = "&" -> <<"&","a","m","p",";">>
      [] OTHER -> <<c>>

EscapeXml(s) ==
    LET esc[i \in 0..Len(s)] ==
            IF i = 0 THEN <<>> ELSE esc[i - 1] \o EscapeChar(s[i])
    IN esc[Len(s)]

ContentTextEscaped(content) == EscapeXml(content)

\* {contract_content} inside the f-string: the string itself.
ContentText(content) == content

SourceTextPath(name, path) == path

\* {contract} inside the f-string: the name as listed, not file_path.
SourceText(name, path) == name

\* xml_content += f"\t<document index=\"{index}\">\n"
DocumentOpenLine(idx) ==
    <<"\t","<","d","o","c","u","m","e","n","t"," ","i","n","d","e","x","=","\"">> \o IntToStr(idx) \o <<"\"",">","\n">>

\* xml_content += f"\t\t<source>{contract}</source>\n"
SourceLine(name, path) ==
    <<"\t","\t","<","s","o","u","r","c","e",">">> \o SourceText(name, path) \o <<"<","/","s","o","u","r","c","e",">","\n">>

\* xml_content += f"\t\t<document_content>{contract_content}</document_content>\n"
ContentLine(content) ==
    <<"\t","\t","<","d","o","c","u","m","e","n","t","_","c","o","n","t","e","n","t",">">> \o ContentText(content)
        \o <<"<","/","d","o","c","u","m","e","n","t","_","c","o","n","t","e","n","t",">","\n">>

\* xml_content += "\t</document>\n"
DocumentCloseLine == <<"\t","<","/","d","o","c","u","m","e","n","t",">","\n">>

\* ------------------------------------------------------------ file system

\* Contents an input file may hold.
TextA == <<"c","o","n","t","r","a","c","t"," ","A"," ","{","}">>

TextB == <<"c","o","n","t","r","a","c","t"," ","B"," ","{","}">>

TextReserved == <<"a","<","b",">","&","c">>

TextCRLF == <<"x","\r","\n","y","\r","z">>

Contents == {TextA, TextB, TextReserved, TextCRLF}

\* Contents the output path may hold before the first run.
PriorShort == <<"o","l","d">>

PriorLong == 
    <<"<","d","o","c","u","m","e","n","t","s",">","s","t","a","l","e"," ","s","t","a","l","e",
      " ","s","t","a","l","e","<","/","d","o","c","u","m","e","n","t","s",">">>

Missing == [st |-> "missing", text |-> <<>>]

Denied == [st |-> "denied", text |-> <<>>]

Undecodable == [st |-> "undecodable", text |-> <<>>]

Regular(t) == [st |-> "ok", text |-> t]

InputFiles == {Missing, Denied, Undecodable} \cup {Regular(t) : t \in Contents}

OutputFiles == {Missing, Denied, Regular(PriorShort), Regular(PriorLong)}

InputPaths == {os_path_join(CurDir, n) : n \in Names}

Paths == InputPaths \cup {OutputPath}

\* open(path, 'r') raises for a missing or unreadable file.
CanOpenForRead(f) == f.st \in {"ok", "undecodable"}

\* open(path, mode) for writing raises when the path is not writable; the
\* modes that do not create the file raise when it is missing.
CanOpenForWrite(mode, f) ==
    /\ f.st /= "denied"
    /\ mode = "r+" => f.st /= "missing"

\* The file as open(path, mode) leaves it: 'w' creates or truncates.
OpenedForWrite(mode, f) ==
    IF mode = "w" THEN Regular(<<>>) ELSE Regular(f.text)

\* The position of a freshly opened handle.
InitialPos(mode, f) == IF mode = "a" THEN Len(f.text) ELSE 0

\* The file's characters after `data` is written at offset `at`.
WriteAt(old, at, data) ==
    SubSeq(old, 1, at) \o data
        \o SubSeq(old, at + Len(data) + 1, Len(old))

\* How many characters of a write of n characters reach the file: all of
\* them, or fewer when the device fails midway.
WriteOutcomes(n) == {0, n \div 2, n}

WithExitLeak(hs, path) == hs

\* The end of a `with open(...)` block: the handle is closed.
WithExit(hs, path) == SelectSeq(hs, LAMBDA h : h /= path)

OnOpenErrorSkip == "exit"

\* An exception raised by open() is not caught: the script stops.
OnOpenError == "failed"

OnReadErrorSkip == "exit"

\* An exception raised by read() is not caught: the script stops.
OnReadError == "failed"

\* ------------------------------------------------------------------ state

VARIABLES
    contracts,         \* the list of filenames
    disk,              \* the file system: path -> file
    pc,                \* the statement the script is at
    it,                \* how many names the for loop has taken
    index,             \* loop variable `index`
    contract,          \* loop variable `contract`
    file_path,         \* `file_path`
    contract_content,  \* `contract_content`
    xml_content,       \* `xml_content`
    handles,           \* paths of the file objects currently open
    pos,               \* offset of the output handle
    run,               \* which run of the script this is
    startDisk,         \* the file system when this run started
    opened,            \* positions of the names this run called open() on
    nread,             \* how many read() calls of this run returned
    texts,             \* the text each of them returned
    writes,            \* how many write() calls this run made
    completed,         \* how many of them wrote all their data
    outputs            \* the output file at the end of each successful run

prog == <<pc, it, index, contract, file_path, contract_content, xml_content,
          handles, pos>>

hist == <<run, startDisk, opened, nread, texts, writes, completed,
          outputs>>

vars == <<contracts, disk, prog, hist>>

Lists == UNION {[1..n -> Names] : n \in 0..MaxFiles}

Init ==
    /\ contracts \in Lists
    /\ disk \in {d \in [Paths -> InputFiles \cup OutputFiles] :
                    /\ d[OutputPath] \in OutputFiles
                    /\ \A p \in InputPaths : d[p] \in InputFiles}
    /\ pc = "for"
    /\ it = 0
    /\ index = 0
    /\ contract = <<>>
    /\ file_path = <<>>
    /\ contract_content = <<>>
    /\ xml_content = DocumentsOpen
    /\ handles = <<>>
    /\ pos = 0
    /\ run = 1
    /\ startDisk = disk
    /\ opened = <<>>
    /\ nread = 0
    /\ texts = <<>>
    /\ writes = 0
    /\ completed = 0
    /\ outputs = <<>>

\* ---------------------------------------------------------------- actions

\* for index, contract in enumerate(contracts, start=1):
\*     file_path = os.path.join('.', contract)
ForNext ==
    /\ pc = "for"
    /\ it < Len(contracts)
    /\ it' = it + 1
    /\ index' = EnumerateIndex(it)
    /\ contract' = contracts[it + 1]
    /\ file_path' = os_path_join(CurDir, contracts[it + 1])
    /\ pc' = "open"
    /\ UNCHANGED <<contracts, disk, contract_content, xml_content, handles,
                   pos, hist>>

\* with open(file_path, 'r') as file:
OpenInput ==
    /\ pc = "open"
    /\ opened' = Append(opened, it)
    /\ IF CanOpenForRead(disk[file_path])
       THEN /\ handles' = Append(handles, file_path)
            /\ pc' = "read"
       ELSE /\ handles' = handles
            /\ pc' = OnOpenError
    /\ UNCHANGED <<contracts, disk, it, index, contract, file_path,
                   contract_content, xml_content, pos, run, startDisk, nread,
                   texts, writes, completed, outputs>>

\* contract_content = file.read() and the four xml_content += lines.
ReadInput ==
    /\ pc = "read"
    /\ IF disk[file_path].st = "ok"
       THEN /\ contract_content' = UniversalNewlines(disk[file_path].text)
            /\ xml_content' = xml_content
                   \o DocumentOpenLine(index)
                   \o SourceLine(contract, file_path)
                   \o ContentLine(contract_content')
                   \o DocumentCloseLine
            /\ nread' = nread + 1
            /\ texts' = Append(texts, contract_content')
            /\ pc' = "exit"
       ELSE /\ UNCHANGED <<contract_content, xml_content, nread, texts>>
            /\ pc' = "unwind"
    /\ UNCHANGED <<contracts, disk, it, index, contract, file_path, handles,
                   pos, run, startDisk, opened, writes, completed, outputs>>

\* The input's with block ends normally: the file is closed, the loop goes on.
ExitInput ==
    /\ pc = "exit"
    /\ handles' = WithExit(handles, file_path)
    /\ pc' = "for"
    /\ UNCHANGED <<contracts, disk, it, index, contract, file_path,
                   contract_content, xml_content, pos, hist>>

\* The input's with block is left by the exception read() raised.
UnwindInput ==
    /\ pc = "unwind"
    /\ handles' = WithExit(handles, file_path)
    /\ pc' = OnReadError
    /\ UNCHANGED <<contracts, disk, it, index, contract, file_path,
                   contract_content, xml_content, pos, hist>>

\* The loop is exhausted: xml_content += "</documents>"
ForEnd ==
    /\ pc = "for"
    /\ it >= Len(contracts)
    /\ xml_content' = xml_content \o DocumentsClose
    /\ pc' = "openout"
    /\ UNCHANGED <<contracts, disk, it, index, contract, file_path,
                   contract_content, handles, pos, hist>>

\* with open("contracts.xml", 'w') as xml_file:
OpenOutput ==
    /\ pc = "openout"
    /\ IF CanOpenForWrite(OpenMode, disk[OutputPath])
       THEN /\ disk' = [disk EXCEPT
                          ![OutputPath] = OpenedForWrite(OpenMode, @)]
            /\ pos' = InitialPos(OpenMode, disk[OutputPath])
            /\ handles' = Append(handles, OutputPath)
            /\ pc' = "write"
       ELSE /\ UNCHANGED <<disk, pos, handles>>
            /\ pc' = "failed"
    /\ UNCHANGED <<contracts, it, index, contract, file_path,
                   contract_content, xml_content, hist>>

\* xml_file.write(xml_content)
WriteOutput ==
    /\ pc = "write"
    /\ \E n \in WriteOutcomes(Len(WriteTranslate(xml_content))) :
         LET data == WriteTranslate(xml_content)
             done == SubSeq(data, 1, n)
         IN /\ disk' = [disk EXCEPT ![OutputPath] =
                          Regular(WriteAt(@.text, pos, done))]
            /\ pos' = pos + n
            /\ writes' = writes + 1
            /\ IF n = Len(data)
               THEN completed' = completed + 1 /\ pc' = "exitout"
               ELSE completed' = completed /\ pc' = "unwindout"
    /\ UNCHANGED <<contracts, it, index, contract, file_path,
                   contract_content, xml_content, handles, run, startDisk,
                   opened, nread, texts, outputs>>

\* The output's with block ends normally: the file is closed, the script ends.
ExitOutput ==
    /\ pc = "exitout"
    /\ handles' = WithExit(handles, OutputPath)
    /\ outputs' = Append(outputs, disk[OutputPath].text)
    /\ pc' = "success"
    /\ UNCHANGED <<contracts, disk, it, index, contract, file_path,
                   contract_content, xml_content, pos, run, startDisk, opened,
                   nread, texts, writes, completed>>

\* The output's with block is left by the exception write() raised.
UnwindOutput ==
    /\ pc = "unwindout"
    /\ handles' = WithExit(handles, OutputPath)
    /\ pc' = "failed"
    /\ UNCHANGED <<contracts, disk, it, index, contract, file_path,
                   contract_content, xml_content, pos, hist>>

Terminated == pc \in {"success", "failed"}

\* The script is started again: a new process, the same files.
Rerun ==
    /\ Terminated
    /\ run < MaxRuns
    /\ run' = run + 1
    /\ startDisk' = disk
    /\ pc' = "for"
    /\ it' = 0
    /\ index' = 0
    /\ contract' = <<>>
    /\ file_path' = <<>>
    /\ contract_content' = <<>>
    /\ xml_content' = DocumentsOpen
    /\ handles' = <<>>
    /\ pos' = 0
    /\ opened' = <<>>
    /\ nread' = 0
    /\ texts' = <<>>
    /\ writes' = 0
    /\ completed' = 0
    /\ UNCHANGED <<contracts, disk, outputs>>

\* The steps of one run.
Step ==
    \/ ForNext
    \/ OpenInput
    \/ ReadInput
    \/ ExitInput
    \/ UnwindInput
    \/ ForEnd
    \/ OpenOutput
    \/ WriteOutput
    \/ ExitOutput
    \/ UnwindOutput

Next ==
    \/ ForNext
    \/ OpenInput
    \/ ReadInput
    \/ ExitInput
    \/ UnwindInput
    \/ ForEnd
    \/ OpenOutput
    \/ WriteOutput
    \/ ExitOutput
    \/ UnwindOutput
    \/ Rerun

Spec == Init /\ [][Next]_vars

\* A started script keeps executing: nothing in it waits.
FairSpec == Spec /\ WF_vars(Step)

\* ------------------------------------------------- vocabulary of the claims

\* The characters of the output file.
Out == disk[OutputPath].text

\* The path the k-th filename is opened at.
PathOf(k) == os_path_join(CurDir, contracts[k])

\* The characters stored in the k-th file when the run started.
RawOf(k) == startDisk[PathOf(k)].text

\* The text a read of the k-th file returns.
TextOf(k) == UniversalNewlines(RawOf(k))

Positions == 1..Len(contracts)

SomeUnreadable == \E k \in Positions : disk[PathOf(k)].st /= "ok"

StartsAt(s, p, pat) ==
    /\ p >= 1
    /\ p + Len(pat) - 1 <= Len(s)
    /\ SubSeq(s, p, p + Len(pat) - 1) = pat

\* Where pat occurs in s.
Occurrences(pat, s) == {p \in 1..Len(s) : StartsAt(s, p, pat)}

\* The k-th smallest member of a set of numbers.
Kth(S, k) == CHOOSE p \in S : Cardinality({q \in S : q < p}) = k - 1

\* The text between the k-th occurrence of `open` and the k-th of `close`.
Between(s, open, close, k) ==
    SubSeq(s, Kth(Occurrences(open, s), k) + Len(open),
              Kth(Occurrences(close, s), k) - 1)

TagDocument == <<"<","d","o","c","u","m","e","n","t"," ","i","n","d","e","x","=","\"">>

TagSource == <<"<","s","o","u","r","c","e",">">>

TagSourceEnd == <<"<","/","s","o","u","r","c","e",">">>

TagContent == <<"<","d","o","c","u","m","e","n","t","_","c","o","n","t","e","n","t",">">>

TagContentEnd == <<"<","/","d","o","c","u","m","e","n","t","_","c","o","n","t","e","n","t",">">>

\* The output format as the specification writes it.
RefDocument(k) ==
    <<"\t","<","d","o","c","u","m","e","n","t"," ","i","n","d","e","x","=","\"">> \o IntToStr(k) \o <<"\"",">","\n">>
    \o <<"\t","\t","<","s","o","u","r","c","e",">">> \o contracts[k] \o <<"<","/","s","o","u","r","c","e",">","\n">>
    \o <<"\t","\t","<","d","o","c","u","m","e","n","t","_","c","o","n","t","e","n","t",">">> \o TextOf(k) \o <<"<","/","d","o","c","u","m","e","n","t","_","c","o","n","t","e","n","t",">","\n">>
    \o <<"\t","<","/","d","o","c","u","m","e","n","t",">","\n">>

RefDocuments ==
    LET docs[n \in 0..Len(contracts)] ==
            IF n = 0 THEN <<>> ELSE docs[n - 1] \o RefDocument(n)
    IN docs[Len(contracts)]

Reference == <<"<","d","o","c","u","m","e","n","t","s",">","\n">> \o RefDocuments \o <<"<","/","d","o","c","u","m","e","n","t","s",">">>

ScenarioOutput == 
    <<"<","d","o","c","u","m","e","n","t","s",">","\n","\t","<","d","o","c","u","m","e","n","t",
      " ","i","n","d","e","x","=","\"","1","\"",">","\n","\t","\t","<","s","o","u","r","c","e",">",
      "A",".","s","o","l","<","/","s","o","u","r","c","e",">","\n","\t","\t","<","d","o","c","u",
      "m","e","n","t","_","c","o","n","t","e","n","t",">","c","o","n","t","r","a","c","t"," ",
      "A"," ","{","}","<","/","d","o","c","u","m","e","n","t","_","c","o","n","t","e","n","t",
      ">","\n","\t","<","/","d","o","c","u","m","e","n","t",">","\n","\t","<","d","o","c","u","m",
      "e","n","t"," ","i","n","d","e","x","=","\"","2","\"",">","\n","\t","\t","<","s","o","u","r",
      "c","e",">","B",".","s","o","l","<","/","s","o","u","r","c","e",">","\n","\t","\t","<","d",
      "o","c","u","m","e","n","t","_","c","o","n","t","e","n","t",">","c","o","n","t","r","a",
      "c","t"," ","B"," ","{","}","<","/","d","o","c","u","m","e","n","t","_","c","o","n","t",
      "e","n","t",">","\n","\t","<","/","d","o","c","u","m","e","n","t",">","\n","<","/","d","o",
      "c","u","m","e","n","t","s",">">>

IsScenario ==
    /\ contracts = <<NameA, NameB>>
    /\ startDisk[os_path_join(CurDir, NameA)] = Regular(TextA)
    /\ startDisk[os_path_join(CurDir, NameB)] = Regular(TextB)

EmptyClaimed == 
    <<"<","d","o","c","u","m","e","n","t","s",">","<","/","d","o","c","u","m","e","n","t","s",
      ">">>

EmptyActual == 
    <<"<","d","o","c","u","m","e","n","t","s",">","\n","<","/","d","o","c","u","m","e","n","t",
      "s",">">>

\* ------------------------------------------------------------------ claims

\* C1: a successful run on N readable files writes exactly N <document>
\* elements; the k-th carries index="k" and the k-th filename, so indices
\* start at 1, rise by 1, and follow the order of the list.
C1_DocumentsIndexedInOrder ==
    pc = "success" =>
        LET occ == Occurrences(TagDocument, Out)
        IN /\ Cardinality(occ) = Len(contracts)
           /\ \A k \in Positions :
                StartsAt(Out, Kth(occ, k),
                         TagDocument \o IntToStr(k) \o <<"\"",">","\n","\t","\t","<","s","o","u","r","c","e",">">>
                             \o contracts[k] \o TagSourceEnd)

C1_Witness ==
    /\ pc = "success"
    /\ Len(contracts) >= 2
    /\ contracts[1] /= contracts[2]

\* C2: when a listed file is missing or unreadable, at whatever position,
\* the run fails and the output file is never opened: it is not created,
\* truncated or written, and no output is produced.
C2_NoOutputWhenAFileFails ==
    SomeUnreadable =>
        /\ pc \notin {"write", "exitout", "unwindout", "success"}
        /\ \A i \in 1..Len(handles) : handles[i] /= OutputPath
        /\ disk[OutputPath] = startDisk[OutputPath]
        /\ writes = 0
        /\ outputs = <<>>

C2_Witness ==
    /\ pc = "failed"
    /\ it = 2
    /\ nread = 1
    /\ disk[file_path].st /= "ok"

\* C3: in a written output the body of the k-th <document_content> element
\* is the full text read from the k-th file, not altered, cut or escaped;
\* the reserved characters of a file appear unchanged.  (The text read is
\* the file's content after the newline translation of a text-mode read, so
\* a file without "\r" appears exactly as stored.)
C3_ContentIsTextRead ==
    pc = "success" =>
        \A k \in Positions :
            LET body == Between(Out, TagContent, TagContentEnd, k)
            IN /\ body = texts[k]
               /\ (\A i \in 1..Len(RawOf(k)) : RawOf(k)[i] /= "\r")
                      => body = RawOf(k)

C3_Witness ==
    /\ pc = "success"
    /\ \E k \in Positions : RawOf(k) = TextReserved
    /\ \E k \in Positions : RawOf(k) = TextCRLF

\* C4 as stated: an empty list gives the output <documents></documents>.
C4_EmptyListNoNewline ==
    (pc = "success" /\ contracts = <<>>) => Out = EmptyClaimed

\* C4 as amended: an empty list gives the output "<documents>" followed by a
\* newline and "</documents>".
C4_EmptyListOutput ==
    (pc = "success" /\ contracts = <<>>) => Out = EmptyActual

C4_Witness == pc = "success" /\ contracts = <<>>

\* C5: for a non-empty list of readable files the whole output is the
\* reference concatenation, without XML declaration or trailing newline; the
\* files A.sol and B.sol of the scenario give the scenario's string.
C5_OutputIsReference ==
    (pc = "success" /\ contracts /= <<>>) =>
        /\ Out = Reference
        /\ Out[Len(Out)] /= "\n"
        /\ ~StartsAt(Out, 1, <<"<","?","x","m","l">>)
        /\ IsScenario => Out = ScenarioOutput

C5_Witness == pc = "success" /\ IsScenario

\* C6: the text of the k-th <source> element is the k-th filename as listed,
\* without the directory it was opened in.
C6_SourceIsListedName ==
    pc = "success" =>
        \A k \in Positions :
            LET src == Between(Out, TagSource, TagSourceEnd, k)
            IN src = contracts[k] /\ src /= PathOf(k)

C6_Witness ==
    /\ pc = "success"
    /\ Len(contracts) >= 2
    /\ contracts[1] = NameB

\* C7: two successive successful runs on the same input files leave the same
\* output, although the second finds the first one's output in place.
C7_SecondRunSameOutput ==
    \A j \in 1..Len(outputs) : outputs[j] = outputs[1]

C7_Witness ==
    /\ pc = "success"
    /\ Len(outputs) >= 2
    /\ contracts /= <<>>

\* C8: a successful run replaces the output file: its content depends on the
\* list and the input files only, not on what the path held before; the run
\* makes one write, to the output file, and changes no other file.
C8_OutputOverwritten ==
    pc = "success" =>
        /\ Out = Reference
        /\ writes = 1
        /\ \A p \in Paths \ {OutputPath} : disk[p] = startDisk[p]

C8_Witness ==
    /\ pc = "success"
    /\ startDisk[OutputPath] = Regular(PriorLong)

\* C9: at most one file is open at any time; a file is closed before the
\* next is opened; the output is opened only after every input was read and
\* closed; no file is open once the run has ended, however it ended.
C9_OneHandleAtATime ==
    /\ Len(handles) <= 1
    /\ pc \in {"for", "open", "openout"} => handles = <<>>
    /\ Terminated => handles = <<>>
    /\ (\E i \in 1..Len(handles) : handles[i] = OutputPath)
           => nread = Len(contracts) /\ it = Len(contracts)

C9_Witness ==
    /\ pc = "failed"
    /\ it = 2
    /\ nread = 1
    /\ disk[file_path].st = "undecodable"

\* What C10 says of every state: positions are opened once each and in
\* order; nothing is opened after a file that failed; there is at most one
\* write; a run that has ended succeeded exactly when every file was read
\* and the write completed.
C10_State ==
    /\ \A j \in 1..Len(opened) : opened[j] = j
    /\ \A j \in 1..Len(opened) :
           disk[PathOf(j)].st /= "ok" => j = Len(opened)
    /\ (opened /= <<>> /\ ~CanOpenForRead(disk[PathOf(Len(opened))]))
           => pc = "failed"
    /\ writes <= 1
    /\ Terminated =>
           (pc = "success" <=>
                nread = Len(contracts) /\ writes = 1 /\ completed = 1)

\* C10: every run ends, in success or in failure; the first failing read
\* ends it at once, no later file is opened and nothing is retried; it ends
\* in success exactly when every file was read and the one write completed.
C10_RunEndsOnce == (~Terminated ~> Terminated) /\ []C10_State

C10_Witness ==
    /\ pc = "failed"
    /\ it < Len(contracts)
    /\ ~CanOpenForRead(disk[file_path])

====
